---- MODULE Spec2Model ----
(***************************************************************************)
(* Conversation store and message dispatcher of the Zenith chat client     *)
(* (src/src/context/ZenithContext.tsx): the reducer zenithReducer, the     *)
(* provider's load/save effects on localStorage, and the operations        *)
(* createNewConversation, setActiveConversation, sendMessage,              *)
(* clearConversation and setApiKey.                                        *)
(*                                                                         *)
(* Text is a sequence of one-character strings, so that slice and string   *)
(* concatenation are computed.  Ids produced by nanoid() are the positive  *)
(* integers, handed out in order; dates are integers read from a clock.    *)
(* A handler's dispatches are followed by the render they cause, so each   *)
(* handler is created in the render of the store it is called on.          *)
(***************************************************************************)
EXTENDS Integers, Sequences, FiniteSets, TLC

\* ---------------------------------------------------------------- bounds
MaxClock == 5    \* handler runs that read the clock

\* ------------------------------------------------------------- constants
TitleLen == 30
\* Literal texts of the source.
\* the default title given by createNewConversation
DefaultTitle == <<"N", "e", "w", " ", "c", "o", "n", "v", "e", "r", "s", "a", "t", "i", "o", "n">>
\* the marker appended to a derived title
Ellipsis == <<".", ".", ".">>
\* the prefix of a synthesized error message
ErrorPrefix == <<"E", "r", "r", "o", "r", ":", " ">>
\* the message thrown when apiKey is empty
MissingKeyMsg == <<"P", "l", "e", "a", "s", "e", " ", "s", "e", "t", " ", "y", "o", "u", "r", " ", "G", "e", "m", "i", "n", "i", " ", "A", "P", "I", " ", "k", "e", "y", " ", "i", "n", " ", "t", "h", "e", " ", "s", "e", "t", "t", "i", "n", "g", "s">>
\* the fallback message of a non-ok response
GenericRemoteMsg == <<"F", "a", "i", "l", "e", "d", " ", "t", "o", " ", "g", "e", "t", " ", "r", "e", "s", "p", "o", "n", "s", "e", " ", "f", "r", "o", "m", " ", "G", "e", "m", "i", "n", "i", " ", "A", "P", "I">>
\* the description of a thrown value that is not an Error
UnknownErrorMsg == <<"U", "n", "k", "n", "o", "w", "n", " ", "e", "r", "r", "o", "r", " ", "o", "c", "c", "u", "r", "r", "e", "d">>

\* Texts the environment supplies.
\* a description the runtime gives to an Error it throws (input)
EngineMsg == <<"T", "y", "p", "e", "E", "r", "r", "o", "r">>
\* an error.message supplied by the server (input)
ServerMsg == <<"q", "u", "o", "t", "a", " ", "e", "x", "c", "e", "e", "d", "e", "d">>
\* a completion text supplied by the server (input)
ReplyText == <<"H", "e", "l", "l", "o", "!">>
\* a user input shorter than TitleLen (input)
ShortContent == <<"h", "i">>
\* a user input longer than TitleLen (input)
LongContent == <<"E", "x", "p", "l", "a", "i", "n", " ", "t", "h", "e", " ", "s", "e", "c", "o", "n", "d", " ", "l", "a", "w", " ", "o", "f", " ", "t", "h", "e", "r", "m", "o", "d", "y", "n", "a", "m", "i", "c", "s">>

\* ----------------------------------------------------------------- values
\* activeConversationId: null (initialState), '' (the falsy string) and an id
\* that no conversation carries; nanoid() never returns one of them.
Null == -1
EmptyId == 0
GhostId == -2

\* JavaScript truthiness of an activeConversationId.
Falsy(id) == id = Null \/ id = EmptyId

\* Credentials the user can type.
ApiKeys == {"", "key1"}

\* import.meta.env.VITE_GEMINI_API_KEY: the build configures no default key.
VITE_GEMINI_API_KEY == ""

\* Contents the user can send.
Contents == {ShortContent, LongContent}

\* The clock's reading when the page is first loaded, in milliseconds: the
\* handlers then run across the turn of a second.
Epoch == 997

VARIABLES state, storage, sends, settled, nanoidCount, now

vars == <<state, storage, sends, settled, nanoidCount, now>>

\* ---------------------------------------------------------------- helpers
Min(a, b) == IF a < b THEN a ELSE b

\* String.prototype.slice(0, n)
Slice(s, n) == SubSeq(s, 1, Min(n, Len(s)))


\* Array.prototype.find on conversations: the indices whose id matches.
Matching(convs, id) == {i \in 1..Len(convs) : convs[i].id = id}

ConvIds(convs) == {convs[i].id : i \in 1..Len(convs)}

\* ---------------------------------------------------------------- reducer
initialState ==
    [conversations |-> <<>>, activeConversationId |-> Null,
     apiKey |-> VITE_GEMINI_API_KEY, loading |-> FALSE]

SET_CONVERSATIONS(s, payload) == [s EXCEPT !.conversations = payload]

SET_ACTIVE_CONVERSATION(s, payload) == [s EXCEPT !.activeConversationId = payload]

\* CREATE_CONVERSATION with the new conversation put in front of the list.
CREATE_CONVERSATION_FIRST(s, payload) ==
    [s EXCEPT !.conversations = <<payload>> \o s.conversations,
              !.activeConversationId = payload.id]

CREATE_CONVERSATION(s, payload) ==
    [s EXCEPT !.conversations = Append(s.conversations, payload),
              !.activeConversationId = payload.id]

\* DeriveTitle without the test that the title is still the default.
DeriveTitleAnyFirst(conversation, updatedMessages, message) ==
    IF Len(updatedMessages) = 1
    THEN Slice(message.content, TitleLen) \o Ellipsis
    ELSE conversation.title

DeriveTitle(conversation, updatedMessages, message) ==
    IF conversation.title = DefaultTitle /\ Len(updatedMessages) = 1
    THEN Slice(message.content, TitleLen) \o Ellipsis
    ELSE conversation.title

\* AddTo with the message list replaced by the new message.
AddToAlone(conversation, message, t) ==
    LET updatedMessages == <<message>>
    IN  [conversation EXCEPT !.messages = updatedMessages,
                             !.updatedAt = t,
                             !.title = DeriveTitle(conversation, updatedMessages, message)]

\* AddTo with the message put in front of the list.
AddToFront(conversation, message, t) ==
    LET updatedMessages == <<message>> \o conversation.messages
    IN  [conversation EXCEPT !.messages = updatedMessages,
                             !.updatedAt = t,
                             !.title = DeriveTitle(conversation, updatedMessages, message)]

AddTo(conversation, message, t) ==
    LET updatedMessages == Append(conversation.messages, message)
    IN  [conversation EXCEPT !.messages = updatedMessages,
                             !.updatedAt = t,
                             !.title = DeriveTitle(conversation, updatedMessages, message)]

\* ADD_MESSAGE that falls back to the last conversation when no id matches.
ADD_MESSAGE_OR_LAST(s, conversationId, message, t) ==
    [s EXCEPT !.conversations =
        [i \in 1..Len(s.conversations) |->
            IF \/ s.conversations[i].id = conversationId
               \/ Matching(s.conversations, conversationId) = {} /\ i = Len(s.conversations)
            THEN AddTo(s.conversations[i], message, t)
            ELSE s.conversations[i]]]

ADD_MESSAGE(s, conversationId, message, t) ==
    [s EXCEPT !.conversations =
        [i \in 1..Len(s.conversations) |->
            IF s.conversations[i].id = conversationId
            THEN AddTo(s.conversations[i], message, t)
            ELSE s.conversations[i]]]

\* CLEAR_CONVERSATION without the test of the conversation's id.
CLEAR_EVERY_CONVERSATION(s, t) ==
    IF Falsy(s.activeConversationId) THEN s
    ELSE [s EXCEPT !.conversations =
            [i \in 1..Len(s.conversations) |->
                [s.conversations[i] EXCEPT !.messages = <<>>, !.updatedAt = t]]]

CLEAR_CONVERSATION(s, t) ==
    IF Falsy(s.activeConversationId) THEN s
    ELSE [s EXCEPT !.conversations =
            [i \in 1..Len(s.conversations) |->
                IF s.conversations[i].id = s.activeConversationId
                THEN [s.conversations[i] EXCEPT !.messages = <<>>, !.updatedAt = t]
                ELSE s.conversations[i]]]

SET_API_KEY(s, payload) == [s EXCEPT !.apiKey = payload]

SET_LOADING(s, payload) == [s EXCEPT !.loading = payload]

\* ------------------------------------------------------------ persistence
\* Date.prototype.toJSON writes an instant as text with a seconds part and a
\* milliseconds part; new Date(text) reads it back.
\* DateToJSON without the milliseconds.
DateToJSONSeconds(t) == [sec |-> t \div 1000, ms |-> 0]

DateToJSON(t) == [sec |-> t \div 1000, ms |-> t % 1000]
DateFromJSON(d) == d.sec * 1000 + d.ms

StringifyMessage(m) == [m EXCEPT !.createdAt = DateToJSON(m.createdAt)]
ParseMessage(m) == [m EXCEPT !.createdAt = DateFromJSON(m.createdAt)]

StringifyConversation(c) ==
    [c EXCEPT !.createdAt = DateToJSON(c.createdAt),
              !.updatedAt = DateToJSON(c.updatedAt),
              !.messages = [i \in 1..Len(c.messages) |-> StringifyMessage(c.messages[i])]]

ParseConversation(c) ==
    [c EXCEPT !.createdAt = DateFromJSON(c.createdAt),
              !.updatedAt = DateFromJSON(c.updatedAt),
              !.messages = [i \in 1..Len(c.messages) |-> ParseMessage(c.messages[i])]]

Stringify(convs) == [i \in 1..Len(convs) |-> StringifyConversation(convs[i])]
Parse(text) == [i \in 1..Len(text) |-> ParseConversation(text[i])]

\* localStorage: an absent key reads as null.
NoItem == [has |-> FALSE, val |-> <<>>]
Item(v) == [has |-> TRUE, val |-> v]

EmptyStorage == [conversations |-> NoItem, apiKey |-> [has |-> FALSE, val |-> ""]]

\* SaveConversations that writes only a list of two or more.
SaveConversationsSeveral(stg, convs) ==
    IF Len(convs) > 1 THEN [stg EXCEPT !.conversations = Item(Stringify(convs))] ELSE stg

\* The save effects, run after a render whose dependency changed.
SaveConversations(stg, convs) ==
    IF Len(convs) > 0 THEN [stg EXCEPT !.conversations = Item(Stringify(convs))] ELSE stg

SaveApiKey(stg, key) ==
    IF key # "" THEN [stg EXCEPT !.apiKey = Item(key)] ELSE stg

\* Load without the saved conversations.
LoadApiKeyOnly(stg, s) ==
    IF stg.apiKey.has /\ stg.apiKey.val # ""
    THEN SET_API_KEY(s, stg.apiKey.val)
    ELSE s

\* The load effect: the store after its dispatches.
Load(stg, s) ==
    LET s1 == IF stg.conversations.has
              THEN LET parsedConversations == Parse(stg.conversations.val)
                       s0 == SET_CONVERSATIONS(s, parsedConversations)
                   IN  IF Len(parsedConversations) > 0
                       THEN SET_ACTIVE_CONVERSATION(s0, parsedConversations[1].id)
                       ELSE s0
              ELSE s
    IN  IF stg.apiKey.has /\ stg.apiKey.val # ""
        THEN SET_API_KEY(s1, stg.apiKey.val)
        ELSE s1

\* ------------------------------------------------------------------- Init
Init ==
    /\ state = initialState
    /\ storage = SaveApiKey(EmptyStorage, initialState.apiKey)
    /\ sends = <<>>
    /\ settled = "none"
    /\ nanoidCount = 0
    /\ now = Epoch


\* The render that follows a change of the store, and the save effects whose
\* dependency changed between the two renders.
Effects(old, new, stg) ==
    LET stg1 == IF new.conversations # old.conversations
                THEN SaveConversations(stg, new.conversations) ELSE stg
    IN  IF new.apiKey # old.apiKey THEN SaveApiKey(stg1, new.apiKey) ELSE stg1

\* The handlers that read the clock run at successive instants; every send in
\* flight is left an instant to finish in.
ClockFree(k) == (now - Epoch) + Len(sends) + k <= MaxClock

\* ---------------------------------------------------------------- actions
\* A handler has dispatched its actions, the store is s: the provider renders
\* again and its effects run.
Dispatched(s) ==
    /\ state' = s
    /\ storage' = Effects(state, s, storage)

NewConversation(id, t) ==
    [id |-> id, title |-> DefaultTitle, messages |-> <<>>, createdAt |-> t, updatedAt |-> t]

createNewConversation ==
    /\ ClockFree(1)
    /\ now' = now + 1
    /\ Dispatched(CREATE_CONVERSATION(state, NewConversation(nanoidCount + 1, now')))
    /\ nanoidCount' = nanoidCount + 1
    /\ settled' = "none"
    /\ UNCHANGED sends

setActiveConversation ==
    \E id \in ConvIds(state.conversations) \cup {GhostId, EmptyId} :
        /\ Dispatched(SET_ACTIVE_CONVERSATION(state, id))
        /\ settled' = "none"
        /\ UNCHANGED <<sends, nanoidCount, now>>

clearConversation ==
    /\ ClockFree(1)
    /\ now' = now + 1
    /\ Dispatched(CLEAR_CONVERSATION(state, now'))
    /\ settled' = "none"
    /\ UNCHANGED <<sends, nanoidCount>>

setApiKey ==
    \E key \in ApiKeys :
        /\ Dispatched(SET_API_KEY(state, key))
        /\ settled' = "none"
        /\ UNCHANGED <<sends, nanoidCount, now>>

\* The page is loaded again: the provider mounts with initialState and its
\* three effects run in order on that first render (the load effect reads the
\* storage before the save effects write), then it renders the loaded store.
\* The sends of the previous page are gone.
Mount ==
    LET s0 == initialState
        s1 == Load(storage, s0)
        stg == SaveApiKey(SaveConversations(storage, s0.conversations), s0.apiKey)
    IN  /\ state' = s1
        /\ storage' = Effects(s0, s1, stg)
        /\ sends' = <<>>
        /\ settled' = "none"
        /\ UNCHANGED <<nanoidCount, now>>
\* -------------------------------------------------------------- sendMessage
Message(id, role, content, t) ==
    [id |-> id, role |-> role, content |-> content, createdAt |-> t]

\* Transcript without the push of the new content.
TranscriptNoPush(activeConversation, content) ==
    [i \in 1..Len(activeConversation.messages) |->
        [role |-> activeConversation.messages[i].role,
         content |-> activeConversation.messages[i].content]]

\* The request body's messages: the {role, content} pairs of the conversation
\* found in the closure's state, then the new content.
Transcript(activeConversation, content) ==
    Append([i \in 1..Len(activeConversation.messages) |->
               [role |-> activeConversation.messages[i].role,
                content |-> activeConversation.messages[i].content]],
           [role |-> "user", content |-> content])

\* What the endpoint can answer: fetch rejects with some value, or resolves
\* with a status (ok or not) and a body that is not JSON, is JSON null, or is a
\* JSON object with or without error.message and choices[0].message.content.
Response(fetchRejects, thrownIsError, ok, body, errorMessage, hasChoice) ==
    [fetchRejects |-> fetchRejects, thrownIsError |-> thrownIsError, ok |-> ok,
     body |-> body, errorMessage |-> errorMessage, hasChoice |-> hasChoice,
     choice |-> IF hasChoice THEN ReplyText ELSE <<>>]

Responses ==
    {Response(TRUE, e, FALSE, "invalid", <<>>, FALSE) : e \in BOOLEAN}
    \cup
    {Response(FALSE, TRUE, o, b, <<>>, FALSE) : o \in BOOLEAN, b \in {"invalid", "null"}}
    \cup
    {Response(FALSE, TRUE, o, "object", m, h) :
        o \in BOOLEAN, m \in {<<>>, ServerMsg}, h \in BOOLEAN}

Thrown(isError, message) == [threw |-> TRUE, isError |-> isError, text |-> message]
Returned(text) == [threw |-> FALSE, isError |-> FALSE, text |-> text]

\* Outcome with the test of response.ok inverted.
OutcomeInvertedOk(r) ==
    IF r.fetchRejects THEN Thrown(r.thrownIsError, EngineMsg)
    ELSE IF r.body = "invalid" THEN Thrown(TRUE, EngineMsg)
    ELSE IF r.ok
         THEN IF r.body = "null" THEN Thrown(TRUE, EngineMsg)
              ELSE Thrown(TRUE, IF r.errorMessage # <<>> THEN r.errorMessage
                                ELSE GenericRemoteMsg)
    ELSE IF r.body = "null" \/ ~r.hasChoice THEN Thrown(TRUE, EngineMsg)
    ELSE Returned(r.choice)

\* The try block from the fetch on: what it throws, or the completion text.
Outcome(r) ==
    IF r.fetchRejects THEN Thrown(r.thrownIsError, EngineMsg)
    ELSE IF r.body = "invalid" THEN Thrown(TRUE, EngineMsg)
    ELSE IF ~r.ok
         THEN IF r.body = "null" THEN Thrown(TRUE, EngineMsg)
              ELSE Thrown(TRUE, IF r.errorMessage # <<>> THEN r.errorMessage
                                ELSE GenericRemoteMsg)
    ELSE IF r.body = "null" \/ ~r.hasChoice THEN Thrown(TRUE, EngineMsg)
    ELSE Returned(r.choice)

\* The ids drawn after the await: the assistant message's id is drawn before
\* its content is read, so a success body without a usable first choice
\* draws one id for the message it never builds and one in the catch block.
IdsDrawn(r) ==
    IF ~r.fetchRejects /\ r.body # "invalid" /\ r.ok /\ (r.body = "null" \/ ~r.hasChoice)
    THEN 2 ELSE 1

\* The catch block's message content.
ErrorContent(o) ==
    ErrorPrefix \o (IF o.isError THEN o.text ELSE UnknownErrorMsg)

\* The message appended once the try block has finished with outcome o.
FollowUp(id, o, t) ==
    Message(id, "assistant", IF o.threw THEN ErrorContent(o) ELSE o.text, t)

\* CatchFinally without the finally block.
CatchNoFinally(s, conversationId, id, o, t) ==
    ADD_MESSAGE(s, conversationId, FollowUp(id, o, t), t)

\* The catch and finally blocks after the try block threw o.
CatchFinally(s, conversationId, id, o, t) ==
    SET_LOADING(ADD_MESSAGE(s, conversationId, FollowUp(id, o, t), t), FALSE)

\* A call of sendMessage suspended at an await: at await fetch (at "fetch"),
\* or, once fetch has resolved with a status, at await response.json() (at
\* "json", ok the status's response.ok).
Send(content, conversationId, messages) ==
    [content |-> content, conversationId |-> conversationId, messages |-> messages,
     at |-> "fetch", ok |-> FALSE]

\* What can arrive at send s: a rejection of fetch while it awaits fetch; a
\* body of the response whose status it holds while it awaits the body.
Awaits(s, r) ==
    IF r.fetchRejects THEN s.at = "fetch" ELSE s.at = "json" /\ s.ok = r.ok

\* sendMessage(content) up to its first await, or to its end when it never
\* awaits.  The closure reads the state of the render it was created in, which
\* none of its own dispatches changes.
sendMessageCall(content) ==
        LET creates == Falsy(state.activeConversationId)
            n0 == nanoidCount
            s1 == IF creates
                  THEN CREATE_CONVERSATION(state, NewConversation(n0 + 1, now'))
                  ELSE state
            n1 == IF creates THEN n0 + 1 ELSE n0
        IN  /\ ClockFree(2)
            /\ now' = now + 1
            /\ IF creates /\ Len(state.conversations) = 0
               THEN \* state.conversations[-1].id throws outside the try block
                    /\ Dispatched(s1)
                    /\ nanoidCount' = n1
                    /\ sends' = sends
                    /\ settled' = "rejected"
               ELSE LET conversationId ==
                            IF ~creates THEN state.activeConversationId
                            ELSE state.conversations[Len(state.conversations)].id
                        userMessage == Message(n1 + 1, "user", content, now')
                        s2 == ADD_MESSAGE(s1, conversationId, userMessage, now')
                        s3 == SET_LOADING(s2, TRUE)
                        found == Matching(state.conversations, conversationId)
                    IN  IF state.apiKey = ""
                        THEN /\ Dispatched(CatchFinally(s3, conversationId, n1 + 2,
                                                        Thrown(TRUE, MissingKeyMsg), now'))
                             /\ nanoidCount' = n1 + 2
                             /\ sends' = sends
                             /\ settled' = "resolved"
                        ELSE IF found = {}
                        THEN /\ Dispatched(SET_LOADING(s3, FALSE))
                             /\ nanoidCount' = n1 + 1
                             /\ sends' = sends
                             /\ settled' = "resolved"
                        ELSE LET activeConversation ==
                                     state.conversations[CHOOSE i \in found :
                                                            \A j \in found : i <= j]
                             IN  /\ Dispatched(s3)
                                 /\ nanoidCount' = n1 + 1
                                 /\ sends' = Append(sends,
                                       Send(content, conversationId,
                                            Transcript(activeConversation, content)))
                                 /\ settled' = "none"

sendMessage == \E content \in Contents : sendMessageCall(content)

\* sendMessageResumeWith that appends to the conversation active on arrival.
sendMessageResumeToActive(i, r) ==
        LET o == Outcome(r)
            id == nanoidCount + IdsDrawn(r)
            s1 == ADD_MESSAGE(state, state.activeConversationId, FollowUp(id, o, now'), now')
        IN  /\ Awaits(sends[i], r)
            /\ now' = now + 1
            /\ Dispatched(SET_LOADING(s1, FALSE))
            /\ nanoidCount' = id
            /\ sends' = [j \in 1..(Len(sends) - 1) |-> IF j < i THEN sends[j] ELSE sends[j + 1]]
            /\ settled' = "resolved"

\* fetch of send i resolves with a status: the call resumes, calls
\* response.json() and suspends again; it dispatches nothing.
sendMessageFetchedWith(i, ok) ==
    /\ sends[i].at = "fetch"
    /\ sends' = [sends EXCEPT ![i].at = "json", ![i].ok = ok]
    /\ settled' = "none"
    /\ UNCHANGED <<state, storage, nanoidCount, now>>

sendMessageFetched ==
    \E i \in 1..Len(sends) : \E ok \in BOOLEAN : sendMessageFetchedWith(i, ok)

\* The last resumption of send i, which runs to the end of the call: fetch
\* rejects, or the body of the response arrives (r), read or not by json().
sendMessageResumeWith(i, r) ==
        LET o == Outcome(r)
            id == nanoidCount + IdsDrawn(r)
            s1 == ADD_MESSAGE(state, sends[i].conversationId, FollowUp(id, o, now'), now')
        IN  /\ Awaits(sends[i], r)
            /\ now' = now + 1
            /\ Dispatched(SET_LOADING(s1, FALSE))
            /\ nanoidCount' = id
            /\ sends' = [j \in 1..(Len(sends) - 1) |-> IF j < i THEN sends[j] ELSE sends[j + 1]]
            /\ settled' = "resolved"

sendMessageResume ==
    \E i \in 1..Len(sends) : \E r \in Responses : sendMessageResumeWith(i, r)

Next ==
    \/ createNewConversation
    \/ setActiveConversation
    \/ clearConversation
    \/ setApiKey
    \/ Mount
    \/ sendMessage
    \/ sendMessageFetched
    \/ sendMessageResume

Spec == Init /\ [][Next]_vars

\* ================================================================ claims
StartsWith(s, p) == Len(s) >= Len(p) /\ SubSeq(s, 1, Len(p)) = p

\* The messages of the conversations of store s that carry id (none: <<>>).
MessagesOf(s, id) ==
    IF Matching(s.conversations, id) = {} THEN <<>>
    ELSE s.conversations[CHOOSE i \in Matching(s.conversations, id) : TRUE].messages

\* Conversation i of the store before the step (a conversation the step adds
\* had no messages before).
Before(i) ==
    IF i <= Len(state.conversations) THEN state.conversations[i].messages ELSE <<>>

\* The step leaves every conversation but the one with this id as it was.
OthersUnchanged(id) ==
    /\ Len(state'.conversations) = Len(state.conversations)
    /\ \A i \in 1..Len(state.conversations) :
          state.conversations[i].id # id => state'.conversations[i] = state.conversations[i]

\* The step appends exactly one message, of this role, at the end of the
\* conversation with this id.
AppendsAtEnd(id, role) ==
    LET old == MessagesOf(state, id)
        new == MessagesOf(state', id)
    IN  /\ Matching(state.conversations, id) # {}
        /\ Len(new) = Len(old) + 1
        /\ SubSeq(new, 1, Len(old)) = old
        /\ new[Len(new)].role = role
        /\ new[Len(new)].id = nanoidCount'

\* ... and the message has this content.
AppendsOne(id, role, content) ==
    /\ AppendsAtEnd(id, role)
    /\ MessagesOf(state', id)[Len(MessagesOf(state', id))].content = content

\* A send has put a request in flight in this step.
Requested == Len(sends') = Len(sends) + 1

\* C1: a sendMessage(content) called with no active conversation creates a
\* conversation, appends the user message to that new conversation, and the
\* new conversation is the active one afterwards.
C1_SendCreatesAndAppends ==
    [][\A content \in Contents :
          (sendMessageCall(content) /\ Falsy(state.activeConversationId)) =>
              LET n == Len(state'.conversations)
              IN  /\ n = Len(state.conversations) + 1
                  /\ state'.activeConversationId = state'.conversations[n].id
                  /\ Len(state'.conversations[n].messages) >= 1
                  /\ state'.conversations[n].messages[1].role = "user"
                  /\ state'.conversations[n].messages[1].content = content]_vars

\* C2: the promise sendMessage returns never rejects.
C2_SendNeverRejects == settled # "rejected"

NoTwoAlike(msgs) == \A i \in 1..(Len(msgs) - 1) : msgs[i].role # msgs[i + 1].role

\* C3: every send has its user message in a conversation as soon as it starts,
\* every send that finishes has appended one assistant message, and no
\* conversation has two consecutive messages of the same role.
C3_OptimisticAlternatingLog ==
    /\ [](\A i \in 1..Len(state.conversations) : NoTwoAlike(state.conversations[i].messages))
    /\ [][\A content \in Contents : sendMessageCall(content) =>
             \E i \in 1..Len(state'.conversations) :
                \E k \in 1..Len(state'.conversations[i].messages) :
                   /\ state'.conversations[i].messages[k].role = "user"
                   /\ state'.conversations[i].messages[k].content = content
                   /\ state'.conversations[i].messages[k].id > nanoidCount]_vars
    /\ [][settled' = "resolved" =>
             \E i \in 1..Len(state'.conversations) :
                LET new == state'.conversations[i].messages
                IN  /\ Len(new) >= 1
                    /\ new[Len(new)].role = "assistant"
                    /\ new[Len(new)].id = nanoidCount']_vars

\* C4: a sendMessage(content) called with an empty credential grows one
\* conversation by exactly the user message and an assistant message that
\* starts with "Error: ", and leaves the busy flag false.
C4_NoCredentialGrowsByTwo ==
    [][\A content \in Contents :
          (sendMessageCall(content) /\ state.apiKey = "") =>
              /\ ~state'.loading
              /\ \E i \in 1..Len(state'.conversations) :
                    LET old == Before(i)
                        new == state'.conversations[i].messages
                    IN  /\ Len(new) = Len(old) + 2
                        /\ SubSeq(new, 1, Len(old)) = old
                        /\ new[Len(old) + 1].role = "user"
                        /\ new[Len(old) + 1].content = content
                        /\ new[Len(old) + 2].role = "assistant"
                        /\ StartsWith(new[Len(old) + 2].content, ErrorPrefix)]_vars

\* The error.message the server supplied with response r, if it supplied one.
Supplied(r) == r.body = "object" /\ r.errorMessage # <<>>

\* C5: when the request of a send receives a non-success response, the send
\* appends one assistant message whose content is "Error: " followed by the
\* message the server supplied, or by the generic message when it supplied none.
C5_NonSuccessAppendsRemoteError ==
    [][\A i \in 1..Len(sends) : \A r \in Responses :
          (~r.fetchRejects /\ ~r.ok /\ settled' = "resolved" /\ sendMessageResumeWith(i, r)) =>
              AppendsOne(sends[i].conversationId, "assistant",
                         ErrorPrefix \o (IF Supplied(r) THEN r.errorMessage
                                         ELSE GenericRemoteMsg))]_vars

\* Response r is a success response that carries a first completion choice.
Success(r) == ~r.fetchRejects /\ r.ok /\ r.body = "object" /\ r.hasChoice

\* C6: a send whose request is issued appends its user message, and when the
\* request receives a success response the send appends exactly one assistant
\* message whose content is the first choice's text (no "Error: " message),
\* and changes no other conversation.
C6_SuccessAppendsReply ==
    /\ [][\A content \in Contents : (Requested /\ sendMessageCall(content)) =>
             AppendsOne(sends'[Len(sends')].conversationId, "user", content)]_vars
    /\ [][\A i \in 1..Len(sends) : \A r \in Responses :
             (Success(r) /\ settled' = "resolved" /\ sendMessageResumeWith(i, r)) =>
                 /\ AppendsOne(sends[i].conversationId, "assistant", r.choice)
                 /\ OthersUnchanged(sends[i].conversationId)]_vars

\* A send has finished on a success response: its reply is the last message of
\* a conversation, right after a user message.
C6_Witness ==
    /\ settled = "resolved"
    /\ \E i \in 1..Len(state.conversations) :
          LET m == state.conversations[i].messages
          IN  /\ Len(m) = 2
              /\ m[1].role = "user"
              /\ m[2].role = "assistant"
              /\ m[2].content = ReplyText
              /\ m[2].id = nanoidCount

\* C7: the busy flag is false whenever no send is in flight, and every step
\* in which a send finishes leaves it false.
C7_BusyResetOnEveryExit ==
    /\ [](sends = <<>> => ~state.loading)
    /\ [][settled' = "resolved" => ~state'.loading]_vars

\* A send that set busy has finished after its network call, with an error.
C7_Witness ==
    /\ sends = <<>>
    /\ settled = "resolved"
    /\ ~state.loading
    /\ \E i \in 1..Len(state.conversations) :
          LET m == state.conversations[i].messages
          IN  /\ Len(m) >= 2
              /\ m[Len(m)].id = nanoidCount
              /\ m[Len(m)].content = ErrorPrefix \o GenericRemoteMsg

\* C8: activeConversationId is null or the id of a conversation in the list.
C8_ActiveIdReferencesConversation ==
    \/ state.activeConversationId = Null
    \/ state.activeConversationId \in ConvIds(state.conversations)

\* The {role, content} pairs of a message list.
Projection(msgs) == [k \in 1..Len(msgs) |-> [role |-> msgs[k].role, content |-> msgs[k].content]]

\* C9: the transcript of a request is the projection of the messages the
\* conversation held before this send's user message, in order, followed by
\* one entry for the new content.
C9_TranscriptIsPriorPlusNew ==
    [][\A content \in Contents : (Requested /\ sendMessageCall(content)) =>
          LET req == sends'[Len(sends')]
              prior == MessagesOf(state, req.conversationId)
          IN  /\ req.messages = Projection(prior) \o <<[role |-> "user", content |-> content]>>
              /\ Len(req.messages) = Len(prior) + 1
              /\ MessagesOf(state', req.conversationId)[Len(prior) + 1].content = content]_vars

\* A request in flight whose transcript holds an earlier exchange and the new
\* content.
C9_Witness ==
    \E i \in 1..Len(sends) :
        /\ Len(sends[i].messages) = 3
        /\ sends[i].messages[1].role = "user"
        /\ sends[i].messages[2].role = "assistant"
        /\ sends[i].messages[1].content # sends[i].content

\* C10: a send can start while another is in flight and the busy flag is true;
\* each send appends its user message at the end of the conversation when it
\* starts, and a send's follow-up is appended at the end of the conversation
\* when its own response arrives, whichever send was called first.
C10_OverlappingSendsInterleave ==
    /\ []((sends # <<>> /\ state.loading /\ ClockFree(2)) => ENABLED sendMessage)
    /\ [][\A content \in Contents :
             (Requested /\ sends # <<>> /\ sendMessageCall(content)) =>
                 AppendsOne(sends'[Len(sends')].conversationId, "user", content)]_vars
    /\ [][\A i \in 1..Len(sends) : \A r \in Responses :
             (Len(sends) >= 2 /\ settled' = "resolved" /\ sendMessageResumeWith(i, r)) =>
                 AppendsAtEnd(sends[i].conversationId, "assistant")]_vars

\* The first of two overlapping sends is still in flight; the conversation
\* holds its user message, then the second send's, then the second's follow-up.
C10_Witness ==
    /\ Len(sends) = 1
    /\ LET m == MessagesOf(state, sends[1].conversationId)
           k == Len(sends[1].messages)
       IN  /\ Len(m) = k + 2
           /\ m[k].role = "user"
           /\ m[k].content = sends[1].content
           /\ m[k + 1].role = "user"
           /\ m[k + 1].content # sends[1].content
           /\ m[k + 2].role = "assistant"

IsPrefix(a, b) == Len(a) <= Len(b) /\ SubSeq(b, 1, Len(a)) = a

\* The step is a clearMessages while conversation i is the active one.
ClearsConversation(i) ==
    /\ clearConversation
    /\ state.activeConversationId = state.conversations[i].id

\* C11: a conversation's message list is extended only at its end: in every
\* step every message keeps its position, id, role and content unless the step
\* is a clearMessages on that conversation; and a send whose conversation id
\* matches no conversation changes no conversation.
C11_MessagesAppendOnly ==
    /\ [][\A i \in 1..Len(state.conversations) :
             \/ /\ Len(state'.conversations) >= i
                /\ state'.conversations[i].id = state.conversations[i].id
                /\ IsPrefix(state.conversations[i].messages, state'.conversations[i].messages)
             \/ ClearsConversation(i)]_vars
    /\ [][\A content \in Contents :
             (/\ ~Falsy(state.activeConversationId)
              /\ state.activeConversationId \notin ConvIds(state.conversations)
              /\ sendMessageCall(content)) =>
                 state'.conversations = state.conversations]_vars

\* A conversation holds the messages of two sends in the order of the calls
\* and of the arrivals: user, assistant, user, assistant, with growing ids.
C11_Witness ==
    \E i \in 1..Len(state.conversations) :
        LET m == state.conversations[i].messages
        IN  /\ Len(m) = 4
            /\ \A k \in 1..3 : m[k].id < m[k + 1].id
            /\ m[1].role = "user" /\ m[3].role = "user"
            /\ m[1].content # m[3].content

\* The first TitleLen characters of a text (all of it when it is shorter).
Leading(text) == [k \in 1..(IF Len(text) < TitleLen THEN Len(text) ELSE TitleLen) |-> text[k]]

\* C12: a conversation's title changes only in a step that gives it its first
\* message (the handler's first append takes the count from 0 to 1; a send
\* without a credential appends its error message in the same step) while
\* the title is the default; it then is the first 30 characters of that first
\* message followed by "...", and a title that is not the default never
\* changes again, by a clear followed by a new first message either.
C12_TitleDerivedOnce ==
    [][\A i \in 1..Len(state.conversations) :
          LET old == state.conversations[i]
              new == state'.conversations[i]
          IN  /\ Len(state'.conversations) >= i
              /\ old.title # DefaultTitle => new.title = old.title
              /\ new.title # old.title =>
                    /\ Len(old.messages) = 0
                    /\ Len(new.messages) >= 1
                    /\ new.title = Leading(new.messages[1].content) \o Ellipsis
              /\ (Len(old.messages) = 0 /\ Len(new.messages) >= 1 /\ old.title = DefaultTitle)
                    => new.title = Leading(new.messages[1].content) \o Ellipsis]_vars

\* A conversation was cleared and has a new first message, and its title is
\* still the one derived from its earlier first message.
C12_Witness ==
    \E i \in 1..Len(state.conversations) :
        LET c == state.conversations[i]
        IN  /\ Len(c.messages) >= 1
            /\ c.title = ShortContent \o Ellipsis
            /\ c.messages[1].content = LongContent

\* C13: clearMessages empties the message list of the active conversation
\* and leaves its id, title and createdAt, every other conversation, the
\* active id, the credential and the busy flag as they were; with no active
\* conversation it leaves the whole store as it was.
C13_ClearOnlyActiveMessages ==
    [][clearConversation =>
          /\ state'.activeConversationId = state.activeConversationId
          /\ state'.apiKey = state.apiKey
          /\ state'.loading = state.loading
          /\ Len(state'.conversations) = Len(state.conversations)
          /\ Falsy(state.activeConversationId) => state' = state
          /\ \A i \in 1..Len(state.conversations) :
                LET old == state.conversations[i]
                    new == state'.conversations[i]
                IN  IF old.id = state.activeConversationId
                    THEN /\ new.messages = <<>>
                         /\ new.id = old.id
                         /\ new.title = old.title
                         /\ new.createdAt = old.createdAt
                    ELSE new = old]_vars

\* The active conversation has just been cleared (it has a derived title and
\* no message) while another conversation still has its messages.
C13_Witness ==
    /\ settled = "none"
    /\ \E i, j \in 1..Len(state.conversations) :
          /\ state.conversations[i].id = state.activeConversationId
          /\ state.conversations[i].messages = <<>>
          /\ state.conversations[i].title # DefaultTitle
          /\ state.conversations[i].updatedAt = now
          /\ state.conversations[j].messages # <<>>

\* The step is a sendMessage called while no conversation is active.
SendsWithNoActive ==
    /\ Falsy(state.activeConversationId)
    /\ \E content \in Contents : sendMessageCall(content)

\* The step adds exactly one conversation, at the end, with an id no
\* conversation had.
AddsOneConversation ==
    /\ Len(state'.conversations) = Len(state.conversations) + 1
    /\ state'.conversations[Len(state'.conversations)].id \notin ConvIds(state.conversations)
    /\ state'.conversations[Len(state'.conversations)].id = state'.activeConversationId

\* C14 as stated: only createConversation changes the number of
\* conversations.
C14_OnlyCreateChangesCount ==
    [][Len(state'.conversations) # Len(state.conversations) => createNewConversation]_vars

\* C14, amended: no step removes or reorders a conversation; each
\* createConversation, and each sendMessage called with no active
\* conversation, adds exactly one conversation with a fresh id at the end;
\* no other step changes the number of conversations.
C14_ListAppendOnly ==
    [][/\ Len(state'.conversations) >= Len(state.conversations)
       /\ \A i \in 1..Len(state.conversations) :
             state'.conversations[i].id = state.conversations[i].id
       /\ createNewConversation => AddsOneConversation
       /\ SendsWithNoActive => AddsOneConversation
       /\ Len(state'.conversations) # Len(state.conversations) =>
             createNewConversation \/ SendsWithNoActive]_vars

\* A send called under an empty active id beside an existing conversation has
\* just issued its request: the conversation it created is the last and the
\* active one and has no message, and its id was drawn right before the id
\* of the user message, which went to the conversation that was last before.
C14_Witness ==
    /\ Len(sends) = 1
    /\ Len(state.conversations) >= 2
    /\ LET n == Len(state.conversations)
           new == state.conversations[n]
           m == state.conversations[n - 1].messages
       IN  /\ state.activeConversationId = new.id
           /\ new.messages = <<>>
           /\ new.createdAt = now
           /\ sends[1].conversationId = state.conversations[n - 1].id
           /\ Len(m) >= 1
           /\ m[Len(m)].role = "user"
           /\ m[Len(m)].id = new.id + 1
           /\ nanoidCount = new.id + 1

\* What a reload would read as the credential: an absent key leaves the
\* store's initial credential.
StoredApiKey == IF storage.apiKey.has THEN storage.apiKey.val ELSE initialState.apiKey

\* C15: every change of the credential is written to the storage, the change
\* to the empty string included: the stored credential is the store's.
C15_CredentialStored == StoredApiKey = state.apiKey

\* C16: every change of the conversation list is written to the storage:
\* after each handler the stored text is the serialization of the list in the
\* store, and a reload then reads exactly that list.
C16_ConversationsStored ==
    IF Len(state.conversations) > 0
    THEN /\ storage.conversations = Item(Stringify(state.conversations))
         /\ Load(storage, initialState).conversations = state.conversations
    ELSE storage.conversations = NoItem

\* The storage holds two conversations, one of them cleared after it had
\* been given a title, the other with messages.
C16_Witness ==
    /\ storage.conversations.has
    /\ Len(storage.conversations.val) = 2
    /\ \E i, j \in 1..2 :
          /\ storage.conversations.val[i].messages = <<>>
          /\ storage.conversations.val[i].title # DefaultTitle
          /\ storage.conversations.val[i].updatedAt # storage.conversations.val[i].createdAt
          /\ Len(storage.conversations.val[j].messages) >= 2

\* The ids of a list of conversations, in order.
IdsOf(convs) == [i \in 1..Len(convs) |-> convs[i].id]

\* C17: at start, with no saved conversations the list is empty and no
\* conversation is active; saved conversations are all loaded, in the saved
\* order, and the save step of the first render (which sees the empty list)
\* neither overwrites nor loses them.
C17_StartLoadsSaved ==
    [][Mount =>
          /\ storage'.conversations = storage.conversations
          /\ IF storage.conversations.has
             THEN /\ IdsOf(state'.conversations) = IdsOf(storage.conversations.val)
                  /\ Stringify(state'.conversations) = storage.conversations.val
                  /\ state'.activeConversationId = storage.conversations.val[1].id
             ELSE /\ state'.conversations = <<>>
                  /\ state'.activeConversationId = Null]_vars

\* The page has been loaded again while a send was in flight: two saved
\* conversations are in the store in the saved order, the first one active,
\* one of them ending with a user message that no send will answer.
C17_Witness ==
    /\ sends = <<>>
    /\ ~state.loading
    /\ Len(state.conversations) = 2
    /\ state.conversations[1].id < state.conversations[2].id
    /\ state.activeConversationId = state.conversations[1].id
    /\ storage.conversations = Item(Stringify(state.conversations))
    /\ \E i \in 1..2 :
          LET m == state.conversations[i].messages
          IN  Len(m) >= 1 /\ m[Len(m)].role = "user"

\* C18: serializing the conversation list and reconstructing it gives the
\* same conversations in the same order, with the same ids, titles, messages,
\* roles and content, and timestamps that are the same instants.
C18_RoundTrip ==
    /\ Parse(Stringify(state.conversations)) = state.conversations
    /\ storage.conversations.has =>
          Stringify(Parse(storage.conversations.val)) = storage.conversations.val
    /\ \A i \in 1..Len(state.conversations) :
          DateFromJSON(DateToJSON(state.conversations[i].updatedAt)) = state.conversations[i].updatedAt

\* The store holds a list read back from the storage (the page was loaded
\* again, which dropped a send) whose timestamps lie on both sides of the turn
\* of a second, so that their written form has both parts.
C18_Witness ==
    /\ sends = <<>>
    /\ ~state.loading
    /\ storage.conversations.has
    /\ state.conversations = Parse(storage.conversations.val)
    /\ \E i \in 1..Len(state.conversations) :
          LET c == state.conversations[i]
              d == storage.conversations.val[i]
          IN  /\ Len(c.messages) >= 1
              /\ c.messages[Len(c.messages)].role = "user"
              /\ d.createdAt.sec = 0 /\ d.createdAt.ms > 0
              /\ d.updatedAt.sec = 1 /\ d.updatedAt.ms > 0
              /\ c.updatedAt = c.createdAt + 3

\* C19: the follow-up of a send goes to the conversation resolved when the
\* send started, also when a select or a create has made another
\* conversation the active one while the request was in flight; no other
\* conversation's messages change.
C19_FollowUpRoutedByStartId ==
    [][\A i \in 1..Len(sends) : \A r \in Responses :
          (/\ state.activeConversationId # sends[i].conversationId
           /\ settled' = "resolved"
           /\ sendMessageResumeWith(i, r)) =>
              /\ AppendsAtEnd(sends[i].conversationId, "assistant")
              /\ OthersUnchanged(sends[i].conversationId)
              /\ state'.activeConversationId = state.activeConversationId]_vars

\* A send has just finished and its follow-up is the last message of a
\* conversation that is not the active one, while the active conversation
\* exists and has no message.
C19_Witness ==
    /\ settled = "resolved"
    /\ \E i, j \in 1..Len(state.conversations) :
          LET m == state.conversations[i].messages
          IN  /\ state.conversations[i].id # state.activeConversationId
              /\ Len(m) >= 2
              /\ m[Len(m)].id = nanoidCount
              /\ m[Len(m)].role = "assistant"
              /\ m[Len(m)].content = ReplyText
              /\ state.conversations[j].id = state.activeConversationId
              /\ state.conversations[j].messages = <<>>

\* C20: a sendMessage called while the active id is not empty and names no
\* conversation issues no request, appends no message to any conversation,
\* and leaves the busy flag false when it has finished.
C20_DanglingSendDoesNothing ==
    [][\A content \in Contents :
          (/\ ~Falsy(state.activeConversationId)
           /\ state.activeConversationId \notin ConvIds(state.conversations)
           /\ sendMessageCall(content)) =>
              /\ settled' = "resolved"
              /\ sends' = sends
              /\ state'.conversations = state.conversations
              /\ ~state'.loading
              /\ state'.activeConversationId = state.activeConversationId]_vars

\* A send has just finished under a dangling active id, with a credential
\* set, beside conversations that have messages: it drew one id (for its user
\* message), which no message carries.
C20_Witness ==
    /\ settled = "resolved"
    /\ state.activeConversationId = GhostId
    /\ state.apiKey # ""
    /\ ~state.loading
    /\ sends = <<>>
    /\ Len(state.conversations) >= 1
    /\ \A i \in 1..Len(state.conversations) :
          /\ state.conversations[i].id # nanoidCount
          /\ state.conversations[i].messages # <<>>
          /\ \A k \in 1..Len(state.conversations[i].messages) :
                state.conversations[i].messages[k].id # nanoidCount
====
